---------------------------- MODULE Spec2Model ----------------------------
(***************************************************************************)
(* A model of cearch (src/src/main.rs, db.rs, embed.rs, symbols.rs,        *)
(* index.rs): the index / init / query / clean commands, the per-file,     *)
(* per-batch, per-symbol loop of `index`, and the sqlite store with its    *)
(* two tables symbols(id, ...) and vec_index(rowid, embedding).            *)
(*                                                                         *)
(* Persistent state is the .cearch directory, the index.sqlite file, its   *)
(* schema and its committed rows.  One indexing process runs at a time     *)
(* (pc, fileIdx, idx, ...); query processes run at any moment on their own *)
(* connection and see committed rows only (journal_mode = WAL).            *)
(*                                                                         *)
(* Scaling.  A Symbol is modelled by its path (a file number) and its line *)
(* (its position in the file); kind, name and code are determined by these *)
(* and are left out.  An f32 is modelled by a small natural number, and    *)
(* the L2 distance by its square, which orders vectors the same way and is *)
(* 0 for the same vectors.  batch_size (64) and the model dimension (384)  *)
(* are scaled down to BatchSize and ModelDim.                              *)
(***************************************************************************)
EXTENDS Integers, Sequences, FiniteSets, TLC

\* ---- bounds ----
NumFiles == 2
\* most symbols one file yields
MaxSyms == 3
\* main.rs:150 `let batch_size: usize = 64`, scaled down
BatchSize == 2
\* main.rs:78 `open_with_dim(&root, 384)`, scaled down
ModelDim == 1
\* coordinates of a vector are 0..MaxCoord
MaxCoord == 1
\* largest k (num_results) of a query
MaxK == 3
\* most files of the repository in the behaviours with queries
StoreFiles == 1
\* index invocations in one behaviour
MaxRuns == 1
\* index invocations in the behaviours that index the same repository again
MaxReruns == 2

Min(a, b) == IF a <= b THEN a ELSE b

SetMax(S) == CHOOSE x \in S : \A y \in S : y <= x

SetMin(S) == CHOOSE x \in S : \A y \in S : x <= y

FileList(m) == [i \in 1..m |-> i]

\* what the embedding model can return for one snippet, and a query vector:
\* the vectors of the model's dimension and one of another length
Embeddings == [1..ModelDim -> 0..MaxCoord] \cup {[i \in 1..(ModelDim + 1) |-> 0]}

\* symbols.rs:14-20 struct Symbol
Symbol(f, i) == [path |-> f, line |-> i]

\* ---- symbols.rs: the language registry and the files of the repository ----
\* the extensions of tracked files: "" is a path without extension
Extensions == {"py", "txt", ""}

\* symbols.rs:37-52 language_registry: the extensions of its entries
Registered == {"py", "rs"}

\* symbols.rs:54-59: the configuration of the extension, "None" when the path
\* has no extension or the registry has no entry for it
language_config_for_path(ext) == IF ext # "" /\ ext \in Registered THEN ext ELSE "None"

\* a tracked file: its extension, whether read_to_string can read it, and the
\* number of definitions the queries of its language match in it (0 when that
\* does not apply)
FileKinds ==
    {k \in [ext : Extensions, readable : BOOLEAN, syms : 0..MaxSyms] :
        (language_config_for_path(k.ext) = "None" \/ ~k.readable) => k.syms = 0}

\* ---- db.rs: the blob encoding and the engine's reading of it ----
to_le_bytes(x) ==
    <<x % 256, (x \div 256) % 256, (x \div 65536) % 256, (x \div 16777216) % 256>>

RECURSIVE f32s_to_blob(_)
f32s_to_blob(v) ==
    IF v = <<>> THEN <<>> ELSE to_le_bytes(Head(v)) \o f32s_to_blob(Tail(v))

\* vec0 reads a blob as Len/4 little-endian f32 values
BlobDim(b) == Len(b) \div 4

BlobVec(b) ==
    [i \in 1..BlobDim(b) |->
        b[4 * i - 3] + 256 * b[4 * i - 2] + 65536 * b[4 * i - 1] + 16777216 * b[4 * i]]

RECURSIVE SumSq(_, _, _)
SumSq(a, b, n) ==
    IF n = 0 THEN 0 ELSE (a[n] - b[n]) * (a[n] - b[n]) + SumSq(a, b, n - 1)

\* vec0's distance column (L2, squared here), for vectors of the same length
Distance(a, b) == SumSq(a, b, Len(a))

VARIABLES
    dir,              \* the .cearch directory exists
    db,               \* index.sqlite: "absent", "empty" (no table), "symbols" (no vec_index), "ready"
    vecDim,           \* the dimension in vec_index's schema, 0 before the table exists
    symbols,          \* committed rows of table symbols: [id, path, line]
    vec_index,        \* committed rows of table vec_index: [rowid, embedding]
    gitignore,        \* .gitignore has a .cearch entry
    tracked,          \* the number of files `git ls-files` lists
    repo,             \* the tracked files: file number -> its kind
    pc,               \* the indexing process: "none", "parse", "embed", "insert", "tx_vec",
                      \* "tx_commit", "done", "aborted", "killed"
    files,            \* main.rs:67 files
    fileIdx,          \* position of `for f in files`
    symbols_in_file,  \* main.rs:107
    idx,              \* main.rs:151
    embeddings_chunk, \* main.rs:156
    zipPos,           \* position of the zip iterator of main.rs:176
    pendSymbols,      \* rows written to symbols inside the open transaction
    pendVec,          \* rows written to vec_index inside the open transaction
    indexExit,        \* exit code of the index command, -1 while there is none
    runs,             \* index invocations so far
    runBase,          \* largest symbols.id when the run opened the store
    parseLog,         \* files handed to enumerate_symbols_in_file, in order, with the result
    embedLog,         \* <<file, idx, ok, vectors returned>> for every embed call of the run
    attempted,        \* <<file, line>> for every insert_symbol call of the run
    insertErr,        \* <<file, line>> for every insert_symbol call that returned Err
    okRuns,           \* index invocations since the store was last removed, when all of
                      \* them ran to the end without a failure; -1 otherwise
    logging,          \* the five logs above are kept (they are the model's, not the program's)
    budget,           \* index invocations the behaviour can hold
    queryOut,         \* the last query command: did open_read return a handle, the exit
                      \* code, the query vector, k and the rows it printed
    cleanOut,         \* the last clean command: its exit code (-1 when there is none) and
                      \* whether it printed `cleaned:`
    killedAt          \* where the index process was when it was interrupted

QueryOut(c, o, e, q, k, res) ==
    [cmd |-> c, opened |-> o, exit |-> e, q |-> q, k |-> k, results |-> res]

persist == <<dir, db, vecDim, symbols, vec_index, gitignore>>

env == <<tracked, repo, logging, budget>>

proc == <<pc, files, fileIdx, symbols_in_file, idx, embeddings_chunk, zipPos,
          pendSymbols, pendVec, indexExit, runs, runBase>>

hist == <<parseLog, embedLog, attempted, insertErr, env>>

vars == <<persist, proc, hist, okRuns, queryOut, cleanOut, killedAt>>

NoClean == [exit |-> -1, cleaned |-> FALSE]

NoQuery == QueryOut("none", FALSE, -1, <<>>, 0, <<>>)

Start ==
    /\ dir = FALSE
    /\ db = "absent"
    /\ vecDim = 0
    /\ symbols = {}
    /\ vec_index = {}
    /\ gitignore = FALSE
    /\ pc = "none"
    /\ files = <<>>
    /\ fileIdx = 1
    /\ symbols_in_file = <<>>
    /\ idx = 0
    /\ embeddings_chunk = <<>>
    /\ zipPos = 1
    /\ pendSymbols = {}
    /\ pendVec = {}
    /\ indexExit = -1
    /\ runs = 0
    /\ runBase = 0
    /\ parseLog = <<>>
    /\ embedLog = {}
    /\ attempted = {}
    /\ insertErr = {}
    /\ okRuns = 0
    /\ queryOut = NoQuery
    /\ cleanOut = NoClean
    /\ killedAt = ""

\* the behaviours of one index invocation, with its log
Init ==
    /\ Start
    /\ logging = TRUE
    /\ budget = MaxRuns
    /\ tracked \in 0..NumFiles
    /\ repo \in [1..tracked -> FileKinds]

\* the behaviours of the store under index, query, clean and init, without the log
InitStore ==
    /\ Start
    /\ logging = FALSE
    /\ budget = MaxRuns
    /\ tracked \in 0..StoreFiles
    /\ repo \in [1..tracked -> FileKinds]

\* the behaviours of index invocations that follow each other on one
\* repository, with the log
InitRerun ==
    /\ Start
    /\ logging = TRUE
    /\ budget = MaxReruns
    /\ tracked \in 0..StoreFiles
    /\ repo \in [1..tracked -> FileKinds]


\* ---- db.rs: DB::open_with_dim ----
\* the schema after `CREATE TABLE IF NOT EXISTS symbols`
WithSymbolsTable(d) == IF d \in {"absent", "empty"} THEN "symbols" ELSE d

\* the file after Connection::open, which creates it when it is missing
AfterConnectionOpen(d) == IF d = "absent" THEN "empty" ELSE d

\* `CREATE VIRTUAL TABLE IF NOT EXISTS vec_index USING vec0(embedding float[dim])`:
\* an existing table keeps its dimension
WithVecTable(d, cur, dim) == IF d = "ready" THEN cur ELSE dim

\* fail names the statement of open_with_dim that fails, "" for none
open_with_dim(dim, fail) ==
    IF fail = "create_dir_all" THEN [ok |-> FALSE, dir |-> dir, db |-> db, vecDim |-> vecDim]
    ELSE IF fail = "open" THEN [ok |-> FALSE, dir |-> TRUE, db |-> db, vecDim |-> vecDim]
    ELSE IF fail = "symbols" THEN
        [ok |-> FALSE, dir |-> TRUE, db |-> AfterConnectionOpen(db), vecDim |-> vecDim]
    ELSE IF fail = "vec_index" THEN
        [ok |-> FALSE, dir |-> TRUE, db |-> WithSymbolsTable(db), vecDim |-> vecDim]
    ELSE [ok |-> TRUE, dir |-> TRUE, db |-> "ready", vecDim |-> WithVecTable(db, vecDim, dim)]

OpenFailures == {"create_dir_all", "open", "symbols", "vec_index"}

\* what can stop the setup of `index` before the store is opened
SetupFailures == {"current_dir", "find_git_root", "list_git_tracked_files", "new_default"}

RowIds(rows) == {r.id : r \in rows}

VecRowIds(rows) == {r.rowid : r \in rows}

\* symbols.id is INTEGER PRIMARY KEY: the largest id plus one
NextId(rows) == IF rows = {} THEN 1 ELSE SetMax(RowIds(rows)) + 1

Logged(old, new) == IF logging THEN new ELSE old

\* the output of a command is gone when the next command or step runs
Quiet ==
    /\ queryOut' = NoQuery
    /\ cleanOut' = NoClean

\* ---- main.rs: Commands::Index, setup (lines 50-84) ----
\* a failing setup step is not noticed: the invocation goes on to the files
index_setupNoExit(fail) ==
    LET o == open_with_dim(ModelDim, IF fail \in OpenFailures THEN fail ELSE "")
    IN [ok |-> TRUE, exit |-> -1, dir |-> o.dir, db |-> o.db, vecDim |-> o.vecDim]

\* the outcome of the setup when its step `fail` fails ("" for none): every
\* failing step ends in std::process::exit(2) (main.rs:55, 63, 73, 82, 222);
\* open_with_dim is the last step and the only one that writes
index_setup(fail) ==
    IF fail \in SetupFailures
    THEN [ok |-> FALSE, exit |-> 2, dir |-> dir, db |-> db, vecDim |-> vecDim]
    ELSE LET o == open_with_dim(ModelDim, fail)
         IN [ok |-> o.ok, exit |-> IF o.ok THEN -1 ELSE 2,
             dir |-> o.dir, db |-> o.db, vecDim |-> o.vecDim]

IndexSetup ==
    /\ pc \in {"none", "done", "aborted", "killed"}
    /\ runs < budget
    /\ runs' = runs + 1
    /\ parseLog' = <<>>
    /\ embedLog' = {}
    /\ attempted' = {}
    /\ insertErr' = {}
    /\ fileIdx' = 1
    /\ idx' = 0
    /\ zipPos' = 1
    /\ symbols_in_file' = <<>>
    /\ embeddings_chunk' = <<>>
    /\ pendSymbols' = {}
    /\ pendVec' = {}
    /\ UNCHANGED <<symbols, vec_index, gitignore, env>>
    /\ killedAt' = ""
    /\ Quiet
    /\ \E fail \in SetupFailures \cup OpenFailures \cup {""} :
        LET o == index_setup(fail) IN
        /\ dir' = o.dir
        /\ db' = o.db
        /\ vecDim' = o.vecDim
        /\ indexExit' = o.exit
        /\ IF o.ok
           THEN /\ pc' = "parse"
                /\ files' = FileList(tracked)
                /\ runBase' = NextId(symbols) - 1
                /\ UNCHANGED okRuns
           ELSE /\ pc' = "aborted"
                /\ files' = <<>>
                /\ runBase' = 0
                /\ okRuns' = Logged(okRuns, -1)

\* ---- main.rs: the loop `for f in files` (lines 106-214) ----
End == Min(idx + BatchSize, Len(symbols_in_file))

Chunk == SubSeq(symbols_in_file, idx + 1, End)

\* the zip of main.rs:176 stops with the shorter of its two sides
ZipLen == Min(Len(Chunk), Len(embeddings_chunk))

Ctl(p, fi, ix, zp) == [pc |-> p, fileIdx |-> fi, idx |-> ix, zipPos |-> zp]

\* a parse error ends the loop over the files
AfterParseErrBreak == Ctl("parse", Len(files) + 1, 0, 1)

\* main.rs:122 `continue` after a parse error
AfterParseErr == Ctl("parse", fileIdx + 1, 0, 1)

\* a file without symbols makes the loop skip the file after it
AfterEmptyFileSkip == Ctl("parse", fileIdx + 2, 0, 1)

\* main.rs:130 `continue` after a file without symbols
AfterEmptyFile == Ctl("parse", fileIdx + 1, 0, 1)

\* main.rs:172 `break` out of the batch loop after a failed embed call
AfterEmbedErr == Ctl("parse", fileIdx + 1, 0, 1)

\* main.rs:205 `idx = end` and the test of the while loop, main.rs:152
AfterBatch ==
    IF End < Len(symbols_in_file)
    THEN Ctl("embed", fileIdx, End, 1)
    ELSE Ctl("parse", fileIdx + 1, 0, 1)

\* the next pair of the zip, or the end of the batch
AfterInsert ==
    IF zipPos + 1 <= ZipLen
    THEN Ctl("insert", fileIdx, idx, zipPos + 1)
    ELSE AfterBatch

\* the Err of insert_symbol ends the for loop over the pairs of the batch
AfterInsertErrBreak == AfterBatch

\* main.rs:181-199: the Err of insert_symbol is logged and the for loop goes on
AfterInsertErr == AfterInsert

\* the jump, and the locals that go out of scope with it: embeddings_chunk at
\* the end of a batch, symbols_in_file at the end of a file
Goto(c) ==
    /\ pc' = c.pc
    /\ fileIdx' = c.fileIdx
    /\ idx' = c.idx
    /\ zipPos' = c.zipPos
    /\ embeddings_chunk' = IF c.pc = "insert" THEN embeddings_chunk ELSE <<>>
    /\ symbols_in_file' = IF c.pc = "parse" THEN <<>> ELSE symbols_in_file

\* the results of enumerate_symbols_in_file: -1 for Err, else the number of symbols
ParseResults == -1..MaxSyms

\* an extension without configuration is an error
NoConfigErr == {-1}

\* symbols.rs:63-66 `None => return Ok(Vec::new())`
NoConfig == {0}

\* symbols.rs:62-129: what enumerate_symbols_in_file can return for a file.
\* Without configuration the file is not read.  With one, a file that cannot
\* be read is an Err; a file that can be read yields its symbols, or an Err
\* of the parser or of a query.
enumerate_symbols_in_file(k) ==
    IF language_config_for_path(k.ext) = "None" THEN NoConfig
    ELSE IF ~k.readable THEN {-1}
    ELSE {r \in ParseResults : r = -1 \/ r = k.syms}

ParseFile ==
    /\ pc = "parse"
    /\ fileIdx <= Len(files)
    /\ \E r \in enumerate_symbols_in_file(repo[files[fileIdx]]) :
        /\ parseLog' = Logged(parseLog, Append(parseLog, [file |-> files[fileIdx], result |-> r]))
        /\ IF r = -1 THEN Goto(AfterParseErr)
           ELSE IF r = 0 THEN Goto(AfterEmptyFile)
           ELSE /\ pc' = "embed"
                /\ idx' = 0
                /\ symbols_in_file' = [i \in 1..r |-> Symbol(files[fileIdx], i)]
                /\ UNCHANGED <<fileIdx, zipPos, embeddings_chunk>>
    /\ UNCHANGED <<persist, files, pendSymbols, pendVec, indexExit,
                   runs, runBase, embedLog, attempted, insertErr, okRuns, env, killedAt>>
    /\ Quiet

\* the run has logged no Err of enumerate_symbols_in_file, of embed or of
\* insert_symbol
FailureFree ==
    /\ \A n \in 1..Len(parseLog) : parseLog[n].result # -1
    /\ \A e \in embedLog : e[3]
    /\ insertErr = {}

\* main.rs:214-225: the loop is over, main returns
Finish ==
    /\ pc = "parse"
    /\ fileIdx > Len(files)
    /\ pc' = "done"
    /\ indexExit' = 0
    /\ okRuns' = Logged(okRuns, IF okRuns >= 0 /\ FailureFree THEN okRuns + 1 ELSE -1)
    /\ UNCHANGED <<persist, files, fileIdx, symbols_in_file, idx, embeddings_chunk, zipPos,
                   pendSymbols, pendVec, runs, runBase, hist, killedAt>>
    /\ Quiet

\* what Embedder::embed can return for a chunk: one vector per snippet
\* (embed.rs:24-34 hands the texts to the model and returns its answer)
EmbedResults(chunk) == [1..Len(chunk) -> Embeddings]

\* main.rs:152-174: one batch handed to Embedder::embed
EmbedBatch ==
    /\ pc = "embed"
    /\ idx < Len(symbols_in_file)
    /\ \/ /\ embedLog' = Logged(embedLog, embedLog \cup {<<files[fileIdx], idx, FALSE, <<>>>>})
          /\ Goto(AfterEmbedErr)
       \/ \E embs \in EmbedResults(Chunk) :
          /\ embedLog' = Logged(embedLog, embedLog \cup {<<files[fileIdx], idx, TRUE, embs>>})
          /\ embeddings_chunk' = embs
          /\ pc' = "insert"
          /\ zipPos' = 1
          /\ UNCHANGED <<fileIdx, idx, symbols_in_file>>
    /\ UNCHANGED <<persist, files, pendSymbols, pendVec, indexExit,
                   runs, runBase, parseLog, attempted, insertErr, okRuns, env, killedAt>>
    /\ Quiet

\* ---- db.rs: DB::insert_symbol (lines 65-87), one statement per step ----
\* no rollback: what the first INSERT wrote stays
AfterDropKeep(pend) == pend

\* what stays of the rows written inside the transaction when `tx` is dropped
\* without commit (an early return by `?`): rusqlite rolls back
AfterDrop(pend) == {}

\* what stays of them when the process is interrupted: uncommitted frames of
\* the write-ahead log are never read
AfterCrash(pend) == {}

\* no check of the dimension
DimAny(blob) == TRUE

\* vec0 accepts a vector of the dimension of its schema only
DimOk(blob) == BlobDim(blob) = vecDim

Key(sym) == <<sym.path, sym.line>>

\* the zip the wrong way round: the symbols with the vectors from the last
ZipAtReversed(pos) ==
    [sym |-> Chunk[pos], emb |-> embeddings_chunk[Len(embeddings_chunk) + 1 - pos]]

\* main.rs:176 `chunk.iter().zip(embeddings_chunk.into_iter())`: the pair at a
\* position, handed to insert_symbol at main.rs:181
ZipAt(pos) == [sym |-> Chunk[pos], emb |-> embeddings_chunk[pos]]

Stay == UNCHANGED <<fileIdx, idx, zipPos, symbols_in_file, embeddings_chunk>>

\* db.rs:74-78: begin the transaction, INSERT INTO symbols
InsertMeta ==
    /\ pc = "insert"
    /\ zipPos <= ZipLen
    /\ attempted' = Logged(attempted, attempted \cup {Key(Chunk[zipPos])})
    /\ \/ /\ insertErr' = Logged(insertErr, insertErr \cup {Key(Chunk[zipPos])})
          /\ Goto(AfterInsertErr)
          /\ UNCHANGED pendSymbols
       \/ /\ pendSymbols' = {[id |-> NextId(symbols), path |-> Chunk[zipPos].path,
                              line |-> Chunk[zipPos].line]}
          /\ pc' = "tx_vec"
          /\ Stay
          /\ UNCHANGED insertErr
    /\ UNCHANGED <<persist, files, pendVec, indexExit, runs, runBase, parseLog, embedLog,
                   okRuns, env, killedAt>>
    /\ Quiet

\* db.rs:80-84: last_insert_rowid, INSERT INTO vec_index
InsertVec ==
    /\ pc = "tx_vec"
    /\ LET rowid == SetMax(RowIds(pendSymbols))
           blob == f32s_to_blob(ZipAt(zipPos).emb)
       IN IF DimOk(blob) /\ rowid \notin VecRowIds(vec_index)
          THEN /\ pendVec' = {[rowid |-> rowid, embedding |-> BlobVec(blob)]}
               /\ pc' = "tx_commit"
               /\ Stay
               /\ UNCHANGED <<insertErr, symbols, pendSymbols>>
          ELSE /\ insertErr' = Logged(insertErr, insertErr \cup {Key(Chunk[zipPos])})
               /\ symbols' = symbols \cup AfterDrop(pendSymbols)
               /\ pendSymbols' = {}
               /\ Goto(AfterInsertErr)
               /\ UNCHANGED pendVec
    /\ UNCHANGED <<dir, db, vecDim, vec_index, gitignore, files, indexExit, runs, runBase,
                   parseLog, embedLog, attempted, okRuns, env, killedAt>>
    /\ Quiet

\* INSERT OR REPLACE on the symbol's path and line: a row of the same symbol
\* goes when the new one comes
InsertOrReplace(rows, pend) ==
    {r \in rows : \A p \in pend : Key(r) # Key(p)} \cup pend

\* db.rs:75-78 `INSERT INTO symbols`: the rows of a committed transaction are
\* added to those of the table, which has no key but id
InsertInto(rows, pend) == rows \cup pend

\* db.rs:85: tx.commit()
Commit ==
    /\ pc = "tx_commit"
    /\ \/ /\ symbols' = InsertInto(symbols, pendSymbols)
          /\ vec_index' = vec_index \cup pendVec
          /\ Goto(AfterInsert)
          /\ UNCHANGED insertErr
       \/ /\ symbols' = symbols \cup AfterDrop(pendSymbols)
          /\ vec_index' = vec_index \cup AfterDrop(pendVec)
          /\ insertErr' = Logged(insertErr, insertErr \cup {Key(Chunk[zipPos])})
          /\ Goto(AfterInsertErr)
    /\ pendSymbols' = {}
    /\ pendVec' = {}
    /\ UNCHANGED <<dir, db, vecDim, gitignore, files, indexExit, runs, runBase, parseLog,
                   embedLog, attempted, okRuns, env, killedAt>>
    /\ Quiet

Running == pc \in {"parse", "embed", "insert", "tx_vec", "tx_commit"}

\* the locals and the log of an index process that is no longer there
Gone ==
    /\ files' = <<>>
    /\ fileIdx' = 1
    /\ symbols_in_file' = <<>>
    /\ idx' = 0
    /\ embeddings_chunk' = <<>>
    /\ zipPos' = 1
    /\ indexExit' = -1
    /\ runBase' = 0
    /\ parseLog' = <<>>
    /\ embedLog' = {}
    /\ attempted' = {}
    /\ insertErr' = {}
    /\ pendSymbols' = {}
    /\ pendVec' = {}
    /\ UNCHANGED <<runs, env>>

\* the indexing process is interrupted (spec section 5: at the process level)
Interrupt ==
    /\ Running
    /\ pc' = "killed"
    /\ killedAt' = pc
    /\ symbols' = symbols \cup AfterCrash(pendSymbols)
    /\ vec_index' = vec_index \cup AfterCrash(pendVec)
    /\ Gone
    /\ okRuns' = Logged(okRuns, -1)
    /\ UNCHANGED <<dir, db, vecDim, gitignore>>
    /\ Quiet

\* ---- db.rs: DB::open_read (lines 58-63) ----
\* Connection::open opens index.sqlite read-write and creates it when it is
\* missing; it fails when the directory of the file is missing
open_read(d, database) ==
    [ok |-> d, db |-> IF d THEN AfterConnectionOpen(database) ELSE database]

\* ---- db.rs: DB::knn (lines 89-114) ----
\* the inner SELECT: `FROM vec_index WHERE embedding MATCH ?1 ORDER BY distance
\* LIMIT ?2`.  Rows at the same distance come in an order the engine chooses,
\* so the result is the set of the sequences it can return.
\* ORDER BY distance DESC: the farthest rows first
RECURSIVE KnnScanDesc(_, _, _)
KnnScanDesc(rows, q, k) ==
    IF k = 0 \/ rows = {} THEN {<<>>}
    ELSE LET dmax == SetMax({Distance(q, r.embedding) : r \in rows})
             farthest == {r \in rows : Distance(q, r.embedding) = dmax}
         IN UNION {{<<[rowid |-> r.rowid, distance |-> dmax]>> \o s :
                        s \in KnnScanDesc(rows \ {r}, q, k - 1)} : r \in farthest}

RECURSIVE KnnScan(_, _, _)
KnnScan(rows, q, k) ==
    IF k = 0 \/ rows = {} THEN {<<>>}
    ELSE LET dmin == SetMin({Distance(q, r.embedding) : r \in rows})
             nearest == {r \in rows : Distance(q, r.embedding) = dmin}
         IN UNION {{<<[rowid |-> r.rowid, distance |-> dmin]>> \o s :
                        s \in KnnScan(rows \ {r}, q, k - 1)} : r \in nearest}

\* `JOIN symbols s ON s.id = v.rowid ORDER BY v.distance`: a row of v without a
\* row of symbols yields nothing
\* the join on the wrong key: s.id = v.rowid + 1
RECURSIVE JoinSymbolsOffByOne(_, _)
JoinSymbolsOffByOne(v, syms) ==
    IF v = <<>> THEN <<>>
    ELSE LET m == {s \in syms : s.id = Head(v).rowid + 1}
         IN (IF m = {} THEN <<>>
             ELSE LET s == CHOOSE s \in m : TRUE
                  IN <<[path |-> s.path, line |-> s.line, distance |-> Head(v).distance]>>)
            \o JoinSymbolsOffByOne(Tail(v), syms)

RECURSIVE JoinSymbols(_, _)
JoinSymbols(v, syms) ==
    IF v = <<>> THEN <<>>
    ELSE LET m == {s \in syms : s.id = Head(v).rowid}
         IN (IF m = {} THEN <<>>
             ELSE LET s == CHOOSE s \in m : TRUE
                  IN <<[path |-> s.path, line |-> s.line, distance |-> Head(v).distance]>>)
            \o JoinSymbols(Tail(v), syms)

\* prepare fails without the tables; vec0 rejects a query vector of another dimension
KnnErr(database, q) == database # "ready" \/ ~DimOk(f32s_to_blob(q))

\* a reader that sees the rows of a transaction that has not committed
SnapshotDirty(committed, pend) == committed \cup pend

\* what the SELECT of a query, on its own connection, reads of a table while
\* insert_symbol has a transaction open (db.rs:37 journal_mode = WAL,
\* db.rs:74 unchecked_transaction, db.rs:85 commit): the committed rows
Snapshot(committed, pend) == committed

knn(q, k) ==
    {JoinSymbols(v, Snapshot(symbols, pendSymbols)) :
        v \in KnnScan(Snapshot(vec_index, pendVec), BlobVec(f32s_to_blob(q)), k)}

\* ---- main.rs: Commands::Query (lines 276-336) ----
QueryFailures == {"current_dir", "find_git_root", "new_default", "embed"}

Query ==
    /\ UNCHANGED <<dir, vecDim, symbols, vec_index, gitignore, proc, hist, okRuns, killedAt>>
    /\ cleanOut' = NoClean
    /\ \/ /\ \E fail \in QueryFailures : TRUE
          /\ queryOut' = QueryOut("query", FALSE, 2, <<>>, 0, <<>>)
          /\ UNCHANGED db
       \/ \E q \in Embeddings, k \in 0..MaxK :
            LET o == open_read(dir, db) IN
            /\ db' = o.db
            /\ IF ~o.ok
               THEN queryOut' = QueryOut("query", FALSE, 2, q, k, <<>>)
               ELSE IF KnnErr(o.db, q)
               THEN queryOut' = QueryOut("query", TRUE, 2, q, k, <<>>)
               ELSE \E res \in knn(q, k) : queryOut' = QueryOut("query", TRUE, 0, q, k, res)

\* clean and init run when no index process does; what is left of the last
\* index invocation (its exit code, its log) is gone by then
Exited ==
    /\ pc' = "none"
    /\ killedAt' = ""
    /\ Gone

\* ---- main.rs: Commands::Clean (lines 337-384) ----
Persist(d, database, vd, syms, vecs, gi) ==
    [dir |-> d, db |-> database, vecDim |-> vd, symbols |-> syms, vec_index |-> vecs,
     gitignore |-> gi]

Current == Persist(dir, db, vecDim, symbols, vec_index, gitignore)

\* the outcomes of remove_dir_all on an existing directory and of the rewrite
\* of .gitignore: all done; directory removed but .gitignore not rewritten;
\* nothing removed; the files removed but not the directory
CleanOutcomes == {"ok", "ok_gitignore_kept", "err", "err_partial"}

Removed(gi) == Persist(FALSE, "absent", 0, {}, {}, gi)

\* NotFound treated as any other error of remove_dir_all
OnNotFoundFatal(P) == [state |-> P, exit |-> 2, cleaned |-> FALSE]

\* main.rs:354-358: remove_dir_all returned NotFound, which is not an error
OnNotFound(P) == [state |-> P, exit |-> 0, cleaned |-> FALSE]

clean(P, io) ==
    IF ~P.dir THEN OnNotFound(P)
    ELSE IF io = "ok" THEN [state |-> Removed(FALSE), exit |-> 0, cleaned |-> TRUE]
    ELSE IF io = "ok_gitignore_kept"
    THEN [state |-> Removed(P.gitignore), exit |-> 0, cleaned |-> TRUE]
    ELSE IF io = "err" THEN [state |-> P, exit |-> 2, cleaned |-> FALSE]
    ELSE [state |-> Persist(TRUE, "absent", 0, {}, {}, P.gitignore), exit |-> 2,
          cleaned |-> FALSE]

Clean ==
    /\ ~Running
    /\ Exited
    /\ queryOut' = NoQuery
    /\ \/ /\ \E fail \in {"current_dir", "find_git_root"} : TRUE
          /\ cleanOut' = [exit |-> 2, cleaned |-> FALSE]
          /\ UNCHANGED persist
       \/ \E io \in CleanOutcomes :
            LET r == clean(Current, io) IN
            /\ cleanOut' = [exit |-> r.exit, cleaned |-> r.cleaned]
            /\ dir' = r.state.dir
            /\ db' = r.state.db
            /\ vecDim' = r.state.vecDim
            /\ symbols' = r.state.symbols
            /\ vec_index' = r.state.vec_index
            /\ gitignore' = r.state.gitignore
    /\ okRuns' = Logged(okRuns, IF db' = "absent" THEN 0 ELSE -1)

\* ---- main.rs: Commands::Init (lines 226-275) ----
InitCmd ==
    /\ ~Running
    /\ UNCHANGED <<db, vecDim, symbols, vec_index, okRuns>>
    /\ Exited
    /\ Quiet
    /\ \/ /\ \E fail \in {"current_dir", "find_git_root", "create_dir_all"} : TRUE
          /\ UNCHANGED <<dir, gitignore>>
       \/ /\ dir' = TRUE
          /\ \E appended \in BOOLEAN : gitignore' = (gitignore \/ appended)

IndexStep == ParseFile \/ Finish \/ EmbedBatch \/ InsertMeta \/ InsertVec \/ Commit

Next == IndexSetup \/ IndexStep \/ Interrupt \/ Clean \/ InitCmd

Spec == Init /\ [][Next]_vars

NextStore == Next \/ Query

SpecStore == InitStore /\ [][NextStore]_vars

SpecRerun == InitRerun /\ [][Next]_vars

\* a run that nothing interrupts: the process is sequential and every call it
\* makes returns, so a step that can be taken is taken
NextRun == IndexSetup \/ IndexStep \/ Clean \/ InitCmd

FairSpec == Init /\ [][NextRun]_vars /\ WF_vars(IndexStep)

\* ---------------------------------------------------------------------------
\* The claims.
\* ---------------------------------------------------------------------------
VecOf(id) == (CHOOSE v \in vec_index : v.rowid = id).embedding

ParsedFiles == [i \in 1..Len(parseLog) |-> parseLog[i].file]

Parsed(f) == \E i \in 1..Len(parseLog) : parseLog[i].file = f

ResultOf(f) == parseLog[CHOOSE i \in 1..Len(parseLog) : parseLog[i].file = f].result

ParseFailed(f) == Parsed(f) /\ ResultOf(f) = -1

\* idx of the batch that holds the symbol at line i
BatchOf(i) == ((i - 1) \div BatchSize) * BatchSize

Embedded(f, b) == \E e \in embedLog : e[1] = f /\ e[2] = b /\ e[3]

EmbedFailed(f, b) == \E e \in embedLog : e[1] = f /\ e[2] = b /\ ~e[3]

InsertFailed(f, i) == <<f, i>> \in insertErr

\* the lines of file f that the run has committed
PersistedOf(f) == {r.line : r \in {x \in symbols : x.path = f /\ x.id > runBase}}

\* C1: in every committed state, after any sequence of successful and failing
\* insert_symbol calls and after an interruption at any point, the ids of
\* table symbols are the rowids of table vec_index, one row each.
C1_IdsAgree ==
    /\ RowIds(symbols) = VecRowIds(vec_index)
    /\ Cardinality(symbols) = Cardinality(RowIds(symbols))
    /\ Cardinality(vec_index) = Cardinality(VecRowIds(vec_index))

\* the run was interrupted between the two INSERTs and the commit of a call,
\* after other calls had committed
C1_Witness == pc = "killed" /\ killedAt = "tx_commit" /\ symbols # {}

InCall == pc \in {"insert", "tx_vec", "tx_commit"} /\ zipPos <= ZipLen

\* C2: while insert_symbol runs with an embedding whose length is not the
\* dimension of the store, no step of it changes the committed rows of either
\* table, it never gets to commit, and it returns Err.
C2_DimMismatchRejected ==
    [][(InCall /\ Len(embeddings_chunk[zipPos]) # vecDim /\ pc' # "killed")
        => /\ symbols' = symbols
           /\ vec_index' = vec_index
           /\ pc' # "tx_commit"
           /\ (pc' # "tx_vec" => Key(Chunk[zipPos]) \in insertErr')]_vars

\* the call for the first pair of a batch, with an embedding of the wrong
\* length, has returned Err while the store held rows
C2_Witness ==
    /\ symbols # {}
    /\ pc = "insert"
    /\ zipPos = 2
    /\ Len(embeddings_chunk[1]) # vecDim
    /\ InsertFailed(Chunk[1].path, Chunk[1].line)

Sorted(res) == \A i \in 1..(Len(res) - 1) : res[i].distance <= res[i + 1].distance

\* res[i] is the metadata of record id, at its distance to q
IsRecord(r, id, q) ==
    /\ id \in VecRowIds(vec_index)
    /\ \E s \in symbols : s.id = id /\ r.path = s.path /\ r.line = s.line
    /\ r.distance = Distance(q, VecOf(id))

\* the results are records of the store, no record twice
Joined(res, q) ==
    \E f \in [1..Len(res) -> VecRowIds(vec_index)] :
        /\ \A i, j \in 1..Len(res) : i # j => f[i] # f[j]
        /\ \A i \in 1..Len(res) : IsRecord(res[i], f[i], q)

Answered == queryOut.cmd = "query" /\ queryOut.opened /\ queryOut.exit = 0

\* C3: a knn query on a store of N records, with a query vector of the store's
\* dimension and any k >= 0, returns min(N, k) results in non-decreasing
\* distance, each the metadata of a record of the store at its distance to q;
\* with k = 0 it returns the empty sequence and no error.
C3_KnnCount ==
    (queryOut.cmd = "query" /\ queryOut.opened /\ db = "ready"
        /\ Len(queryOut.q) = vecDim)
    => /\ queryOut.exit = 0
       /\ Len(queryOut.results) = Min(Cardinality(vec_index), queryOut.k)
       /\ Sorted(queryOut.results)
       /\ Joined(queryOut.results, queryOut.q)

\* a query with k below N whose results are at different distances
C3_Witness ==
    /\ Answered
    /\ queryOut.k = 2
    /\ Cardinality(vec_index) = 3
    /\ Len(queryOut.results) = 2
    /\ queryOut.results[1].distance < queryOut.results[2].distance

\* the records whose embedding is v
RecordsAt(v) == {r \in vec_index : r.embedding = v}

Hits(res, s) ==
    {i \in 1..Len(res) : res[i] = [path |-> s.path, line |-> s.line, distance |-> 0]}

\* C4 as claimed: every record stored with embedding v is among the results of
\* knn(v, k) at distance 0, for every k >= 1.
C4_RoundTripAnyK ==
    (Answered /\ queryOut.k >= 1)
    => \A s \in symbols :
         (s.id \in VecRowIds(vec_index) /\ VecOf(s.id) = queryOut.q)
         => Hits(queryOut.results, s) # {}

\* C4 as amended: knn(v, k) with k >= 1 returns only records at distance 0 as
\* long as there are such records left, and every record stored with embedding
\* v is among the results when k is at least the number of records stored with
\* embedding v.
C4_RoundTrip ==
    (Answered /\ queryOut.k >= 1)
    => LET same == RecordsAt(queryOut.q)
           res == queryOut.results
       IN /\ \A i \in 1..Len(res) : i <= Cardinality(same) => res[i].distance = 0
          /\ Len(res) >= Min(Cardinality(same), queryOut.k)
          /\ queryOut.k >= Cardinality(same)
             => \A s \in symbols :
                  (s.id \in VecRowIds(vec_index) /\ VecOf(s.id) = queryOut.q)
                  => Hits(res, s) # {}

\* two records share the embedding v, another record does not, and knn(v, 2)
\* returned both of the first two
C4_Witness ==
    /\ Answered
    /\ queryOut.k = 2
    /\ Cardinality(RecordsAt(queryOut.q)) = 2
    /\ Cardinality(vec_index) = 3
    /\ Len(queryOut.results) = 2
    /\ queryOut.results[2].distance = 0

\* what the calls made for file f leave in the store: the symbols of its
\* embedded batches whose insert_symbol did not fail
ExpectedOf(f) ==
    {i \in 1..ResultOf(f) : Embedded(f, BatchOf(i)) /\ ~InsertFailed(f, i)}

FileSet == 1..Len(files)

\* C5: when the run is over and symbol extraction failed for a file, every
\* other file of the list has been parsed, and the store holds of it exactly
\* the symbols that its own embed and insert calls let through.
C5_ParseFailureIsolated ==
    pc = "done"
    => \A g \in FileSet :
         ParseFailed(g)
         => \A f \in FileSet \ {g} :
              /\ Parsed(f)
              /\ ResultOf(f) >= 0 => PersistedOf(f) = ExpectedOf(f)

\* the first file failed to parse and all the symbols of the second, in two
\* batches, are in the store
C5_Witness ==
    /\ pc = "done"
    /\ Len(files) = 2
    /\ ParseFailed(1)
    /\ ResultOf(2) = MaxSyms
    /\ PersistedOf(2) = 1..MaxSyms

BatchStarts(n) == {b \in 0..(n - 1) : b % BatchSize = 0}

\* C6 as claimed: when the embedding of a batch fails, none of its symbols is
\* persisted and the run goes on with the next batch of the same file (and
\* with the following files).
C6_NextBatchAfterEmbedFailure ==
    pc = "done"
    => \A f \in FileSet :
         /\ Parsed(f)
         /\ \A b \in BatchStarts(ResultOf(f)) :
              EmbedFailed(f, b)
              => /\ \A i \in PersistedOf(f) : BatchOf(i) # b
                 /\ b + BatchSize < ResultOf(f)
                    => Embedded(f, b + BatchSize) \/ EmbedFailed(f, b + BatchSize)

\* C7: when the run is over, whatever insert_symbol calls failed, every file
\* has been parsed, insert_symbol has been called for every symbol of every
\* embedded batch, and the batch after an embedded batch has been handed to
\* the embedder.
C7_InsertFailureSkipsOne ==
    pc = "done"
    => \A f \in FileSet :
         /\ Parsed(f)
         /\ \A b \in BatchStarts(ResultOf(f)) :
              Embedded(f, b)
              => /\ \A i \in 1..ResultOf(f) : BatchOf(i) = b => <<f, i>> \in attempted
                 /\ b + BatchSize < ResultOf(f)
                    => Embedded(f, b + BatchSize) \/ EmbedFailed(f, b + BatchSize)

\* the insert of the first symbol of a batch failed; the second symbol of the
\* batch, the symbol of the next batch and a symbol of the next file are stored
C7_Witness ==
    /\ pc = "done"
    /\ Len(files) = 2
    /\ ResultOf(1) = MaxSyms
    /\ InsertFailed(1, 1)
    /\ PersistedOf(1) = 2..MaxSyms
    /\ PersistedOf(2) # {}

\* C8: an index run whose setup succeeded gets to the terminal state done,
\* whatever calls fail, and has then handed every file of the list to the
\* symbol extraction once, in the order of the list.
C8_RunTerminates == Running ~> (pc = "done" /\ ParsedFiles = files)

\* a finished run over two files in which a parse, an embed call and an insert
\* call have failed
C8_Witness ==
    /\ pc = "done"
    /\ Len(files) = 2
    /\ ParseFailed(2)
    /\ EmbedFailed(1, BatchSize)
    /\ InsertFailed(1, 1)

\* C9 as claimed: open_read returns an error whenever there is no index
\* file, be the .cearch directory there or not.
C9_OpenReadNotFound == db = "absent" => ~open_read(dir, db).ok

\* C10: a clean command that exits 0 leaves no .cearch directory, and clean
\* run again in the state it leaves changes nothing and exits 0, whatever the
\* file system would answer.
C10_CleanIdempotent ==
    [][cleanOut'.exit = 0
        => /\ ~dir'
           /\ \A io \in CleanOutcomes :
                /\ clean(Current', io).state = Current'
                /\ clean(Current', io).exit = 0]_vars

\* clean has run where there was no .cearch directory, and exited 0
C10_Witness == cleanOut.exit = 0 /\ ~cleanOut.cleaned /\ ~dir

\* the files whose extension has no entry in the registry
Unsupported(k) == language_config_for_path(k.ext) = "None"

\* C11: enumerate_symbols_in_file returns Ok with no symbol, and never Err,
\* for every file whose extension is not registered (a path without extension
\* and a file that cannot be read included); in an index run such a file is
\* parsed with that result, no batch of it is embedded, insert_symbol is not
\* called for it and the run stores no record of it.
C11_UnsupportedIsEmpty ==
    /\ \A k \in FileKinds : Unsupported(k) => enumerate_symbols_in_file(k) = {0}
    /\ \A n \in 1..Len(parseLog) :
         LET f == parseLog[n].file IN
         Unsupported(repo[f])
         => /\ parseLog[n].result = 0
            /\ \A e \in embedLog : e[1] # f
            /\ \A a \in attempted \cup insertErr : a[1] # f
            /\ PersistedOf(f) = {}

\* a finished run over a file without extension that cannot be read and a
\* file of a registered language, whose symbols are all stored
C11_Witness ==
    /\ pc = "done"
    /\ Len(files) = 2
    /\ repo[1].ext = "" /\ ~repo[1].readable
    /\ Parsed(1)
    /\ repo[2].ext = "py"
    /\ PersistedOf(2) = 1..MaxSyms

\* C12: every failing setup step of an index invocation makes it abort with
\* exit code 2; an invocation that aborts has parsed no file, embedded no
\* batch, called no insert and stored, removed or changed no record, and it
\* takes no further step (the next step of an index process is that of a new
\* invocation); an invocation gets to its files only with the store open and
\* its tables there.
C12_SetupFailureAborts ==
    [][/\ \A fail \in SetupFailures \cup OpenFailures :
            ~index_setup(fail).ok /\ index_setup(fail).exit = 2
       /\ runs' = runs + 1
          => \/ /\ pc' = "aborted"
                /\ indexExit' = 2
                /\ symbols' = symbols /\ vec_index' = vec_index
                /\ parseLog' = <<>> /\ embedLog' = {} /\ attempted' = {}
                /\ files' = <<>>
             \/ /\ pc' = "parse"
                /\ indexExit' = -1
                /\ dir' /\ db' = "ready" /\ vecDim' = ModelDim
       /\ (pc = "aborted" /\ runs' = runs)
          => /\ pc' \in {"aborted", "none"}
             /\ symbols' \subseteq symbols /\ vec_index' \subseteq vec_index
             /\ parseLog' = <<>> /\ embedLog' = {} /\ attempted' = {}
      ]_vars

\* an invocation on a store that holds the records of an earlier one has
\* aborted
C12_Witness == pc = "aborted" /\ indexExit = 2 /\ runs = MaxReruns /\ symbols # {}

\* C13 as claimed: a query command, whatever its outcome, leaves the
\* directory, the index file, its schema, its rows and .gitignore as they
\* were; it creates no index where there was none.
C13_QueryReadOnly == [][queryOut'.cmd = "query" => Current' = Current]_vars

\* C14: a query answered while an index run is under way, at any point of
\* the run and of an insert_symbol call, returns only records whose symbols
\* row and vec_index row are both committed, no record twice, and nothing of
\* the rows of the open transaction.
C14_QueryDuringIndex ==
    (Answered /\ Running)
    => /\ Joined(queryOut.results, queryOut.q)
       /\ \A i \in 1..Len(queryOut.results) :
            /\ \E s \in symbols, v \in vec_index :
                 /\ s.id = v.rowid
                 /\ queryOut.results[i].path = s.path
                 /\ queryOut.results[i].line = s.line
            /\ \A p \in pendSymbols :
                 Key(queryOut.results[i]) # Key(p)

\* a query that asked for more records than are committed was answered
\* between the second INSERT and the commit of an insert_symbol call, and
\* returned the committed record
C14_Witness ==
    /\ Answered
    /\ pc = "tx_commit"
    /\ pendSymbols # {} /\ pendVec # {}
    /\ queryOut.k > Cardinality(vec_index)
    /\ Len(queryOut.results) = 1

\* the symbols enumerate_symbols_in_file extracts from a file
Extracted(k) == IF Unsupported(k) \/ ~k.readable THEN 0 ELSE k.syms

\* the committed records of the symbol at line i of file f
RecordsOf(f, i) == {r \in symbols : r.path = f /\ r.line = i}

\* C15: when n index invocations have run to the end without a failure on
\* the same repository since the store was last removed, the store holds n
\* records of each extracted symbol and no other record; and no step but a
\* clean command removes or changes a row of either table.
C15_AppendOnly ==
    [][/\ (okRuns' >= 0 /\ ~Running')
          => \A f \in 1..tracked, i \in 1..MaxSyms :
               Cardinality(RecordsOf(f, i)') = IF i <= Extracted(repo[f]) THEN okRuns' ELSE 0
       /\ cleanOut'.exit = -1
          => symbols \subseteq symbols' /\ vec_index \subseteq vec_index'
      ]_vars

\* the same file of three symbols has been indexed twice without failure
C15_Witness ==
    /\ pc = "done"
    /\ okRuns = MaxReruns
    /\ tracked = 1
    /\ Extracted(repo[1]) = MaxSyms
    /\ Cardinality(symbols) = MaxReruns * MaxSyms

\* the vector the embedder returned for the symbol at line i of file f, in
\* its place in the answer for the batch of the symbol
Returned(f, i) ==
    LET e == CHOOSE e \in embedLog : e[1] = f /\ e[2] = BatchOf(i) /\ e[3]
    IN e[4][i - BatchOf(i)]

\* C16: with an embedder that returns one vector for each snippet, in the
\* order of the snippets, the batches handed to it are the consecutive slices
\* of at most BatchSize symbols of a file, and every record the run has
\* stored, at any point of the run and at its end, holds, for its symbol, the
\* vector returned for that symbol.
C16_SymbolKeepsItsVector ==
    /\ \A e \in embedLog :
         /\ e[2] % BatchSize = 0
         /\ e[3] => Len(e[4]) = Min(BatchSize, ResultOf(e[1]) - e[2])
    /\ \A r \in symbols :
         (r.id > runBase /\ (Running \/ pc = "done"))
         => /\ Embedded(r.path, BatchOf(r.line))
            /\ r.id \in VecRowIds(vec_index)
            /\ VecOf(r.id) = Returned(r.path, r.line)

\* a finished run has stored the three symbols of a file, from two batches,
\* and the embedder did not return the same vector for all of them
C16_Witness ==
    /\ pc = "done"
    /\ Parsed(1)
    /\ ResultOf(1) = MaxSyms
    /\ PersistedOf(1) = 1..MaxSyms
    /\ Returned(1, 1) # Returned(1, 2)
    /\ Returned(1, 3) # Returned(1, 2)

=============================================================================
